---- MODULE Spec2Model ----
(***************************************************************************)
(* A model of rust-text-modifier (src/main.rs): the operation registry     *)
(* (Operation::from_str / to_str), the parsing of one input line in        *)
(* input_thread, and the producer / consumer pipeline started by main.     *)
(*                                                                         *)
(* Text is a sequence of one-character strings.  Five specifications:      *)
(*   Spec       the pipeline (input_thread, processing_thread, main)       *)
(*   FairSpec   the pipeline under the fairness of OS threads              *)
(*   SpecNames  Operation::from_str and Operation::to_str on bounded text  *)
(*   SpecLine   the line parsing of input_thread on bounded lines          *)
(*   SpecCsv    process_csv and the Display of CsvTable on bounded files   *)
(***************************************************************************)
EXTENDS Naturals, Sequences, FiniteSets, TLC

VARIABLES
    input,      \* the lines read_line has returned so far, in order
    pc_in,      \* where input_thread is
    cur,        \* input_thread's parse of the line it is handling
    stop_in,    \* why input_thread left its loop
    chan,       \* the flume channel's queue
    tx,         \* the Sender is alive
    rx,         \* the Receiver is alive
    pc_proc,    \* where processing_thread is
    command,    \* the Command processing_thread holds
    pc_main,    \* where main is
    stdout,     \* what was written to standard output
    stderr,     \* what was written to standard error
    sent,       \* history: the Commands send accepted
    processed,  \* history: the Commands handed to process_operation
    nm_str,     \* SpecNames: the text given to from_str
    nm_kind,    \* SpecNames: the Operation given to to_str
    nm_pc,      \* SpecNames: which function was applied last
    nm_res,     \* SpecNames: the result of from_str
    nm_name,    \* SpecNames: the result of to_str
    ln_in,      \* SpecLine: the line
    ln_out,     \* SpecLine: its parse
    csv_in,     \* SpecCsv: what the file system and the csv Reader give
    csv_pc,     \* SpecCsv: whether process_csv has run
    csv_out     \* SpecCsv: the result of process_csv

pipe_vars == <<input, pc_in, cur, stop_in, chan, tx, rx, pc_proc, command,
               pc_main, stdout, stderr, sent, processed>>
name_vars == <<nm_str, nm_kind, nm_pc, nm_res, nm_name>>
line_vars == <<ln_in, ln_out>>
csv_vars == <<csv_in, csv_pc, csv_out>>
vars == <<pipe_vars, name_vars, line_vars, csv_vars>>

(***************************************************************************)
(* Bounds.                                                                 *)
(***************************************************************************)
MaxLines == 3      \* lines read before end-of-stream is forced
MaxTokLen == 3     \* SpecNames: length of the exhaustively enumerated text
MaxRest == 5       \* SpecLine: characters after the first token
MaxCols == 2       \* SpecCsv: fields of a header row or of a record
MaxRows == 2       \* SpecCsv: records after the header row

(***************************************************************************)
(* Text.                                                                   *)
(***************************************************************************)
Lowers == <<"a","b","c","d","e","f","g","h","i","j","k","l","m",
            "n","o","p","q","r","s","t","u","v","w","x","y","z">>
Uppers == <<"A","B","C","D","E","F","G","H","I","J","K","L","M",
            "N","O","P","Q","R","S","T","U","V","W","X","Y","Z">>

\* Two characters outside ASCII whose lower case is not themselves:
\* KELVIN is U+212A (lower case "k"), IDOT is U+0130 (lower case "i" followed
\* by the combining dot U+0307, here CDOT).
IsUpper(c) == \E i \in 1..26 : Uppers[i] = c
IsLower(c) == \E i \in 1..26 : Lowers[i] = c
LowerOf(c) == Lowers[CHOOSE i \in 1..26 : Uppers[i] = c]
UpperOf(c) == Uppers[CHOOSE i \in 1..26 : Lowers[i] = c]

\* char::to_lowercase: one character to its lower-case text
char_to_lowercase(c) ==
    IF IsUpper(c) THEN <<LowerOf(c)>>
    ELSE IF c = "KELVIN" THEN <<"k">>
    ELSE IF c = "IDOT" THEN <<"i", "CDOT">>
    ELSE <<c>>

\* char::to_uppercase
char_to_uppercase(c) == IF IsLower(c) THEN <<UpperOf(c)>> ELSE <<c>>

RECURSIVE to_lowercase(_)
to_lowercase(s) ==
    IF s = <<>> THEN <<>>
    ELSE char_to_lowercase(Head(s)) \o to_lowercase(Tail(s))

RECURSIVE to_uppercase(_)
to_uppercase(s) ==
    IF s = <<>> THEN <<>>
    ELSE char_to_uppercase(Head(s)) \o to_uppercase(Tail(s))

\* t occurs in s as a contiguous run
Contains(s, t) ==
    \E i \in 0..(Len(s) - Len(t)) : SubSeq(s, i + 1, i + Len(t)) = t

(***************************************************************************)
(* The operation registry.                                                 *)
(***************************************************************************)
\* enum Operation, in declaration order (the order of Operation::iter())
OperationIter ==
    <<"CamelCase", "Csv", "LowerCase", "NoSpaces", "Slugify", "SnakeCase",
      "UpperCase">>
Operation == {OperationIter[i] : i \in 1..Len(OperationIter)}

\* struct OperationError(String) and its Display
OperationError(msg) == <<"Operation error: ">> \o msg

FromOk(op) == [ok |-> TRUE, op |-> op, err |-> <<>>]
FromErr(msg) == [ok |-> FALSE, op |-> "none", err |-> msg]

\* from_str reporting the lower-cased text instead of the text it was given
from_str_lowered(s) ==
    LET l == to_lowercase(s) IN
    IF l = <<"c","a","m","e","l","c","a","s","e">> THEN FromOk("CamelCase")
    ELSE IF l = <<"c","s","v">> THEN FromOk("Csv")
    ELSE IF l = <<"l","o","w","e","r","c","a","s","e">> THEN FromOk("LowerCase")
    ELSE IF l = <<"n","o","-","s","p","a","c","e","s">> THEN FromOk("NoSpaces")
    ELSE IF l = <<"s","l","u","g","i","f","y">> THEN FromOk("Slugify")
    ELSE IF l = <<"s","n","a","k","e","c","a","s","e">> THEN FromOk("SnakeCase")
    ELSE IF l = <<"u","p","p","e","r","c","a","s","e">> THEN FromOk("UpperCase")
    ELSE FromErr(OperationError(<<"Invalid operation: ">> \o l))

\* Operation::from_str
from_str(s) ==
    LET l == to_lowercase(s) IN
    IF l = <<"c","a","m","e","l","c","a","s","e">> THEN FromOk("CamelCase")
    ELSE IF l = <<"c","s","v">> THEN FromOk("Csv")
    ELSE IF l = <<"l","o","w","e","r","c","a","s","e">> THEN FromOk("LowerCase")
    ELSE IF l = <<"n","o","-","s","p","a","c","e","s">> THEN FromOk("NoSpaces")
    ELSE IF l = <<"s","l","u","g","i","f","y">> THEN FromOk("Slugify")
    ELSE IF l = <<"s","n","a","k","e","c","a","s","e">> THEN FromOk("SnakeCase")
    ELSE IF l = <<"u","p","p","e","r","c","a","s","e">> THEN FromOk("UpperCase")
    ELSE FromErr(OperationError(<<"Invalid operation: ">> \o s))

\* to_str with the name of NoSpaces written without its hyphen
to_str_no_hyphen(op) ==
    CASE op = "CamelCase" -> <<"c","a","m","e","l","c","a","s","e">>
      [] op = "Csv"       -> <<"c","s","v">>
      [] op = "LowerCase" -> <<"l","o","w","e","r","c","a","s","e">>
      [] op = "NoSpaces"  -> <<"n","o","s","p","a","c","e","s">>
      [] op = "Slugify"   -> <<"s","l","u","g","i","f","y">>
      [] op = "SnakeCase" -> <<"s","n","a","k","e","c","a","s","e">>
      [] op = "UpperCase" -> <<"u","p","p","e","r","c","a","s","e">>

\* Operation::to_str
to_str(op) ==
    CASE op = "CamelCase" -> <<"c","a","m","e","l","c","a","s","e">>
      [] op = "Csv"       -> <<"c","s","v">>
      [] op = "LowerCase" -> <<"l","o","w","e","r","c","a","s","e">>
      [] op = "NoSpaces"  -> <<"n","o","-","s","p","a","c","e","s">>
      [] op = "Slugify"   -> <<"s","l","u","g","i","f","y">>
      [] op = "SnakeCase" -> <<"s","n","a","k","e","c","a","s","e">>
      [] op = "UpperCase" -> <<"u","p","p","e","r","c","a","s","e">>

\* Operation::print_available_operations: the header line, then one line per
\* operation in Operation::iter() order
AvailableOperations ==
    <<<<"Available operations are:">>>>
    \o [i \in 1..Len(OperationIter) |-> <<"  ">> \o to_str(OperationIter[i])]

(***************************************************************************)
(* One input line, as input_thread handles it.                             *)
(***************************************************************************)
\* char::is_whitespace, on the characters used here (NBSP is U+00A0)
WhiteSpace == {" ", "\t", "\n", "\r", "NBSP"}
is_whitespace(c) == c \in WhiteSpace

\* str::split_whitespace: the maximal runs of non-whitespace, in order.
\* acc is the tokens closed so far, tok the run being read.
RECURSIVE split_ws(_, _, _)
split_ws(s, acc, tok) ==
    IF s = <<>> THEN (IF tok = <<>> THEN acc ELSE Append(acc, tok))
    ELSE IF is_whitespace(Head(s))
         THEN split_ws(Tail(s), IF tok = <<>> THEN acc ELSE Append(acc, tok), <<>>)
         ELSE split_ws(Tail(s), acc, Append(tok, Head(s)))

split_whitespace(s) == split_ws(s, <<>>, <<>>)

\* str::trim
RECURSIVE trim_start(_)
trim_start(s) ==
    IF s # <<>> /\ is_whitespace(Head(s)) THEN trim_start(Tail(s)) ELSE s

RECURSIVE trim_end(_)
trim_end(s) ==
    IF s # <<>> /\ is_whitespace(s[Len(s)])
    THEN trim_end(SubSeq(s, 1, Len(s) - 1)) ELSE s

trim(s) == trim_end(trim_start(s))

\* [&str]::join(sep)
RECURSIVE join(_, _)
join(parts, sep) ==
    IF parts = <<>> THEN <<>>
    ELSE IF Len(parts) = 1 THEN parts[1]
    ELSE parts[1] \o sep \o join(Tail(parts), sep)

\* the payload sliced one token too far: parts[2..].join(" ")
PayloadFromThird(parts) == join(Tail(Tail(parts)), <<" ">>)

\* parts[1..].join(" ")
Payload(parts) == join(Tail(parts), <<" ">>)

Parsed(kind, op, text, err) ==
    [kind |-> kind, operation |-> op, input |-> text, err |-> err]

\* ParseLine matching on from_str before it counts the tokens
ParseLineNameFirst(line) ==
    LET parts == split_whitespace(line) IN
    IF parts = <<>> THEN Parsed("blank", "none", <<>>, <<>>)
    ELSE LET r == from_str(trim(parts[1])) IN
         IF ~r.ok THEN Parsed("invalid", "none", <<>>, r.err)
         ELSE IF Len(parts) < 2 THEN Parsed("format", "none", <<>>, <<>>)
         ELSE Parsed("command", r.op, Payload(parts), <<>>)

\* The body of input_thread's loop from split_whitespace to the match on
\* Operation::from_str: what becomes of one line.
\*   "blank"    no token: continue
\*   "format"   one token: the format error
\*   "command"  a Command {operation, input} to send
\*   "invalid"  from_str failed with err
ParseLine(line) ==
    LET parts == split_whitespace(line) IN
    IF parts = <<>> THEN Parsed("blank", "none", <<>>, <<>>)
    ELSE IF Len(parts) < 2 THEN Parsed("format", "none", <<>>, <<>>)
    ELSE LET r == from_str(trim(parts[1])) IN
         IF r.ok THEN Parsed("command", r.op, Payload(parts), <<>>)
         ELSE Parsed("invalid", "none", <<>>, r.err)

(***************************************************************************)
(* SpecNames: from_str and to_str applied to bounded text and to every     *)
(* Operation.                                                              *)
(***************************************************************************)
CanonicalNames == {to_str(k) : k \in Operation}

\* every way of writing n with each letter in lower or upper case
CaseVariants(n) ==
    {[i \in 1..Len(n) |->
        IF i \in U /\ IsLower(n[i]) THEN UpperOf(n[i]) ELSE n[i]] :
     U \in SUBSET (1..Len(n))}

\* all text of length at most len over the characters cs
TextUpTo(cs, len) == UNION {[1..n -> cs] : n \in 0..len}

NameChars == {"c", "s", "v", "C", "V", "-", " "}

\* n with its i-th character replaced by the text r
Replace(n, i, r) == SubSeq(n, 1, i - 1) \o r \o SubSeq(n, i + 1, Len(n))

\* text close to a canonical name n without being one
NearMisses(n) ==
    {SubSeq(n, 1, j) : j \in 0..(Len(n) - 1)}
    \cup {SubSeq(n, j, Len(n)) : j \in 2..Len(n)}
    \cup {Replace(n, i, r) : i \in 1..Len(n),
                             r \in {<<>>, <<"x">>, <<"_">>, <<" ">>, <<"IDOT">>,
                                    <<"CDOT">>}}
    \cup {Replace(n, i, <<n[i], n[i]>>) : i \in 1..Len(n)}
    \cup {Replace(n, i, <<"KELVIN">>) : i \in {j \in 1..Len(n) : n[j] = "k"}}
    \cup {n \o <<c>> : c \in {"s", " ", "\n", "x"}}
    \cup {<<c>> \o n : c \in {"s", " ", "x"}}
    \cup {to_uppercase(n) \o <<"X">>}

NameInputs ==
    UNION {CaseVariants(n) : n \in CanonicalNames}
    \cup UNION {NearMisses(n) : n \in CanonicalNames}
    \cup TextUpTo(NameChars, MaxTokLen)

NamesIdle ==
    /\ nm_str = <<>>
    /\ nm_kind = "none"
    /\ nm_pc = "idle"
    /\ nm_res = FromErr(<<>>)
    /\ nm_name = <<>>

LineIdle ==
    /\ ln_in = <<>>
    /\ ln_out = Parsed("none", "none", <<>>, <<>>)

(***************************************************************************)
(* The executor: process_operation and the functions it dispatches to.     *)
(***************************************************************************)
\* Result<String, Box<dyn Error>>; table is the prettytable a CsvTable
\* renders to, text everything else
Done(text) == [ok |-> TRUE, text |-> text, table |-> <<>>]
DoneTable(rows) == [ok |-> TRUE, text |-> <<>>, table |-> rows]
Failed(msg) == [ok |-> FALSE, text |-> msg, table |-> <<>>]

\* convert_case's to_case and slug's slugify are other crates' functions:
\* an application of one is kept as the function's name around its argument
External(f, text) == <<f, "(">> \o text \o <<")">>

process_camel_case(text) == Done(External("to_case(Case::Camel)", text))
process_snake_case(text) == Done(External("to_case(Case::Snake)", text))
process_slugify(text) == Done(External("slugify", text))
process_lower_case(text) == Done(to_lowercase(text))
process_upper_case(text) == Done(to_uppercase(text))

\* str::replace(" ", "")
process_no_spaces(text) == Done(SelectSeq(text, LAMBDA c : c # " "))

\* What File::open and the csv Reader give for one path:
\*   open      File::open succeeded
\*   hdr_err   reader.headers() is an Err
\*   headers   the header record (its trimmed fields)
\*   rec_err   reader.records() yields an Err
\*   records   the data records
CsvFile(open, hdr_err, headers, rec_err, records) ==
    [open |-> open, hdr_err |-> hdr_err, headers |-> headers,
     rec_err |-> rec_err, records |-> records]

\* CsvTableFmt filling a record shorter than the header row with empty cells
CsvTableFmtPadded(headers, records) ==
    <<[cells |-> headers, style |-> "bcB"]>>
    \o [i \in 1..Len(records) |->
          [cells |-> [j \in 1..(IF Len(records[i]) < Len(headers)
                                 THEN Len(headers) ELSE Len(records[i])) |->
                        IF j <= Len(records[i]) THEN records[i][j] ELSE <<>>],
           style |-> ""]]

\* impl fmt::Display for CsvTable: the header row, its cells styled "bcB",
\* then one row per record, a cell per field
CsvTableFmt(headers, records) ==
    <<[cells |-> headers, style |-> "bcB"]>>
    \o [i \in 1..Len(records) |-> [cells |-> records[i], style |-> ""]]

\* process_csv reading the records before it looks at the header row
process_csv_rows_first(file_path, file) ==
    IF ~file.open
    THEN Failed(OperationError(<<"Failed to open file '">> \o file_path
                               \o <<"': ", "io error">>))
    ELSE IF file.hdr_err THEN Failed(<<"csv error">>)
    ELSE IF file.rec_err THEN Failed(<<"csv error">>)
    ELSE IF file.records = <<>>
    THEN Failed(OperationError(<<"CSV has no data rows">>))
    ELSE IF file.headers = <<>>
    THEN Failed(OperationError(<<"CSV has no headers">>))
    ELSE DoneTable(CsvTableFmt(file.headers, file.records))

\* process_csv, on what the file system and the csv Reader give for file_path
process_csv(file_path, file) ==
    IF ~file.open
    THEN Failed(OperationError(<<"Failed to open file '">> \o file_path
                               \o <<"': ", "io error">>))
    ELSE IF file.hdr_err THEN Failed(<<"csv error">>)
    ELSE IF file.headers = <<>>
    THEN Failed(OperationError(<<"CSV has no headers">>))
    ELSE IF file.rec_err THEN Failed(<<"csv error">>)
    ELSE IF file.records = <<>>
    THEN Failed(OperationError(<<"CSV has no data rows">>))
    ELSE DoneTable(CsvTableFmt(file.headers, file.records))

\* process_operation
process_operation(op, text, file) ==
    CASE op = "CamelCase" -> process_camel_case(text)
      [] op = "LowerCase" -> process_lower_case(text)
      [] op = "NoSpaces"  -> process_no_spaces(text)
      [] op = "Slugify"   -> process_slugify(text)
      [] op = "SnakeCase" -> process_snake_case(text)
      [] op = "UpperCase" -> process_upper_case(text)
      [] op = "Csv"       -> process_csv(text, file)

(***************************************************************************)
(* The pipeline: its inputs.                                               *)
(***************************************************************************)
\* the lines standard input may hold
L_upper == <<"U","p","p","e","r","C","a","s","e"," "," ","a","\t","b","\n">>
L_csv   == <<"c","s","v"," ","f","\n">>
L_blank == <<" ","\n">>
L_one   == <<"s","l","u","g","i","f","y","\n">>
L_bogus == <<"b","o","g","u","s"," ","x","\n">>
L_word  == <<"x","\n">>
PipeLines == {L_upper, L_csv, L_blank, L_one, L_bogus, L_word}

\* the files a csv command may find: one that cannot be opened, and one with
\* the headers a, b and the records (1, 2) and (3)
F_missing == CsvFile(FALSE, FALSE, <<>>, FALSE, <<>>)
F_ragged  == CsvFile(TRUE, FALSE, <<<<"a">>, <<"b">>>>, FALSE,
                     <<<<<<"1">>, <<"2">>>>, <<<<"3">>>>>>)
PipeFiles == {F_missing, F_ragged}

\* SpecCsv is not running
CsvIdle ==
    /\ csv_in = F_missing
    /\ csv_pc = "idle"
    /\ csv_out = Failed(<<>>)

\* struct Command; id is the position of the Command among those sent
Command(op, text, id) == [operation |-> op, input |-> text, id |-> id]
NoCommand == Command("none", <<>>, 0)

\* one println! on standard output
OutLine(what, id, text, table) ==
    [what |-> what, id |-> id, text |-> text, table |-> table]

\* one eprintln! on standard error (print_available_operations: all of its
\* lines), by the thread who
ErrLine(who, what, id, text, lines) ==
    [who |-> who, what |-> what, id |-> id, text |-> text, lines |-> lines]

(***************************************************************************)
(* The pipeline: main, input_thread (the producer) and processing_thread   *)
(* (the consumer).  println! and eprintln! panic when the write fails, so  *)
(* every step that prints has a panicking twin.                            *)
(***************************************************************************)
PipeInit ==
    /\ input = <<>>
    /\ pc_in = "read"
    /\ cur = Parsed("none", "none", <<>>, <<>>)
    /\ stop_in = "running"
    /\ chan = <<>>
    /\ tx = TRUE
    /\ rx = TRUE
    /\ pc_proc = "recv"
    /\ command = NoCommand
    /\ pc_main = "join_input"
    /\ stdout = <<>>
    /\ stderr = <<>>
    /\ sent = <<>>
    /\ processed = <<>>

\* main has not returned: the process, and so both threads, still run
Running == pc_main \in {"join_input", "join_processing"}

InTerminated == pc_in \in {"done", "panicked"}
ProcTerminated == pc_proc \in {"done", "panicked"}

\* AfterParse taking a blank line for the end of the input
AfterParseBlankEnds(kind) ==
    CASE kind = "blank"   -> "done"
      [] kind = "format"  -> "format_error"
      [] kind = "command" -> "send"
      [] kind = "invalid" -> "invalid_error"

\* where input_thread goes after parsing a line
AfterParse(kind) ==
    CASE kind = "blank"   -> "read"
      [] kind = "format"  -> "format_error"
      [] kind = "command" -> "send"
      [] kind = "invalid" -> "invalid_error"

\* input_thread: read_line returned a line; split it and match on it
InRead ==
    /\ Running /\ pc_in = "read"
    /\ Len(input) < MaxLines
    /\ \E line \in PipeLines :
          /\ input' = Append(input, line)
          /\ cur' = ParseLine(line)
          /\ pc_in' = AfterParse(ParseLine(line).kind)
    /\ UNCHANGED <<stop_in, chan, tx, rx, pc_proc, command, pc_main, stdout,
                   stderr, sent, processed,
                   name_vars, line_vars, csv_vars>>

\* InEof with the Sender kept alive after the loop
InEofKeepsSender ==
    /\ Running /\ pc_in = "read"
    /\ pc_in' = "done"
    /\ stop_in' = "eof"
    /\ UNCHANGED <<input, cur, chan, tx, rx, pc_proc, command, pc_main,
                   stdout, stderr, sent, processed, name_vars, line_vars, csv_vars>>

\* input_thread: read_line returned 0: break, return Ok(()); tx is dropped
InEof ==
    /\ Running /\ pc_in = "read"
    /\ pc_in' = "done"
    /\ stop_in' = "eof"
    /\ tx' = FALSE
    /\ UNCHANGED <<input, cur, chan, rx, pc_proc, command, pc_main, stdout,
                   stderr, sent, processed,
                   name_vars, line_vars, csv_vars>>

\* input_thread: read_line returned an Err: `?` returns it; tx is dropped and
\* the closure in main goes on to report it
InReadError ==
    /\ Running /\ pc_in = "read"
    /\ pc_in' = "thread_error"
    /\ stop_in' = "read_error"
    /\ tx' = FALSE
    /\ UNCHANGED <<input, cur, chan, rx, pc_proc, command, pc_main, stdout,
                   stderr, sent, processed,
                   name_vars, line_vars, csv_vars>>

\* main's closure: eprintln!("Input thread error: {}", e)
InThreadError ==
    /\ Running /\ pc_in = "thread_error"
    /\ stderr' = Append(stderr, ErrLine("input", "thread_error", Len(input),
                                        <<"Input thread error: ", "io error">>, <<>>))
    /\ pc_in' = "done"
    /\ UNCHANGED <<input, cur, stop_in, chan, tx, rx, pc_proc, command,
                   pc_main, stdout, sent, processed,
                   name_vars, line_vars, csv_vars>>

\* input_thread: parts.len() < 2: eprintln! the expected format
InFormatError ==
    /\ Running /\ pc_in = "format_error"
    /\ stderr' = Append(stderr, ErrLine("input", "format_error", Len(input),
                   <<"Error: Expected format: <operation> <input>">>, <<>>))
    /\ pc_in' = "list"
    /\ UNCHANGED <<input, cur, stop_in, chan, tx, rx, pc_proc, command,
                   pc_main, stdout, sent, processed,
                   name_vars, line_vars, csv_vars>>

\* InInvalid going back to read_line without listing the operations
InInvalidNoList ==
    /\ Running /\ pc_in = "invalid_error"
    /\ stderr' = Append(stderr, ErrLine("input", "invalid_error", Len(input),
                                        <<"Error: ">> \o cur.err, <<>>))
    /\ pc_in' = "read"
    /\ UNCHANGED <<input, cur, stop_in, chan, tx, rx, pc_proc, command,
                   pc_main, stdout, sent, processed, name_vars, line_vars, csv_vars>>

\* input_thread: from_str failed: eprintln!("Error: {}", e)
InInvalid ==
    /\ Running /\ pc_in = "invalid_error"
    /\ stderr' = Append(stderr, ErrLine("input", "invalid_error", Len(input),
                                        <<"Error: ">> \o cur.err, <<>>))
    /\ pc_in' = "list"
    /\ UNCHANGED <<input, cur, stop_in, chan, tx, rx, pc_proc, command,
                   pc_main, stdout, sent, processed,
                   name_vars, line_vars, csv_vars>>

\* InList with a break where the loop has its continue
InListBreaks ==
    /\ Running /\ pc_in = "list"
    /\ stderr' = Append(stderr, ErrLine("input", "operations", Len(input),
                                        <<>>, AvailableOperations))
    /\ pc_in' = "done"
    /\ tx' = FALSE
    /\ UNCHANGED <<input, cur, stop_in, chan, rx, pc_proc, command,
                   pc_main, stdout, sent, processed, name_vars, line_vars, csv_vars>>

\* input_thread: Operation::print_available_operations(), then continue
InList ==
    /\ Running /\ pc_in = "list"
    /\ stderr' = Append(stderr, ErrLine("input", "operations", Len(input),
                                        <<>>, AvailableOperations))
    /\ pc_in' = "read"
    /\ UNCHANGED <<input, cur, stop_in, chan, tx, rx, pc_proc, command,
                   pc_main, stdout, sent, processed,
                   name_vars, line_vars, csv_vars>>

\* InSend on a channel made with flume::bounded(1): send waits while the
\* queue is full
InSendBounded ==
    /\ Running /\ pc_in = "send"
    /\ rx
    /\ Len(chan) < 1
    /\ LET c == Command(cur.operation, cur.input, Len(sent) + 1) IN
          /\ chan' = Append(chan, c)
          /\ sent' = Append(sent, c)
    /\ pc_in' = "read"
    /\ UNCHANGED <<input, cur, stop_in, tx, rx, pc_proc, command, pc_main,
                   stdout, stderr, processed,
                   name_vars, line_vars, csv_vars>>

\* input_thread: tx.send(Command { operation, input }) is Ok: the channel is
\* unbounded, so send succeeds whenever the Receiver is alive
InSend ==
    /\ Running /\ pc_in = "send"
    /\ rx
    /\ LET c == Command(cur.operation, cur.input, Len(sent) + 1) IN
          /\ chan' = Append(chan, c)
          /\ sent' = Append(sent, c)
    /\ pc_in' = "read"
    /\ UNCHANGED <<input, cur, stop_in, tx, rx, pc_proc, command, pc_main,
                   stdout, stderr, processed,
                   name_vars, line_vars, csv_vars>>

\* InSendFail with tx.send(..).unwrap(): the Err panics
InSendFailUnwraps ==
    /\ Running /\ pc_in = "send"
    /\ ~rx
    /\ pc_in' = "panicked"
    /\ stop_in' = "send_failed"
    /\ tx' = FALSE
    /\ UNCHANGED <<input, cur, chan, rx, pc_proc, command,
                   pc_main, stdout, stderr, sent, processed,
                   name_vars, line_vars, csv_vars>>

\* input_thread: tx.send is an Err: the Receiver is gone
InSendFail ==
    /\ Running /\ pc_in = "send"
    /\ ~rx
    /\ pc_in' = "send_error"
    /\ stop_in' = "send_failed"
    /\ UNCHANGED <<input, cur, chan, tx, rx, pc_proc, command,
                   pc_main, stdout, stderr, sent, processed,
                   name_vars, line_vars, csv_vars>>

\* input_thread: eprintln!("Error sending command: {}", e); break
InSendError ==
    /\ Running /\ pc_in = "send_error"
    /\ stderr' = Append(stderr, ErrLine("input", "send_error", Len(input),
                   <<"Error sending command: ", "sending on a closed channel">>,
                   <<>>))
    /\ pc_in' = "done"
    /\ tx' = FALSE
    /\ UNCHANGED <<input, cur, stop_in, chan, rx, pc_proc, command, pc_main,
                   stdout, sent, processed,
                   name_vars, line_vars, csv_vars>>

\* input_thread: an eprintln! panics; the thread unwinds and tx is dropped
InPanic ==
    /\ Running
    /\ pc_in \in {"thread_error", "format_error", "invalid_error", "list",
                  "send_error"}
    /\ pc_in' = "panicked"
    /\ stop_in' = IF stop_in = "running" THEN "panic" ELSE stop_in
    /\ tx' = FALSE
    /\ UNCHANGED <<input, cur, chan, rx, pc_proc, command, pc_main, stdout,
                   stderr, sent, processed,
                   name_vars, line_vars, csv_vars>>

\* ProcRecv taking the newest queued Command
ProcRecvNewest ==
    /\ Running /\ pc_proc = "recv"
    /\ chan # <<>>
    /\ command' = chan[Len(chan)]
    /\ chan' = SubSeq(chan, 1, Len(chan) - 1)
    /\ pc_proc' = "announce"
    /\ UNCHANGED <<input, pc_in, cur, stop_in, tx, rx, pc_main, stdout,
                   stderr, sent, processed, name_vars, line_vars, csv_vars>>

\* processing_thread: rx.recv() is Ok(command): the oldest queued Command
ProcRecv ==
    /\ Running /\ pc_proc = "recv"
    /\ chan # <<>>
    /\ command' = Head(chan)
    /\ chan' = Tail(chan)
    /\ pc_proc' = "announce"
    /\ UNCHANGED <<input, pc_in, cur, stop_in, tx, rx, pc_main, stdout,
                   stderr, sent, processed,
                   name_vars, line_vars, csv_vars>>

\* ProcDisconnected with try_recv: an empty queue ends the loop
ProcDisconnectedOnEmpty ==
    /\ Running /\ pc_proc = "recv"
    /\ chan = <<>>
    /\ pc_proc' = "done"
    /\ rx' = FALSE
    /\ UNCHANGED <<input, pc_in, cur, stop_in, chan, tx, command, pc_main,
                   stdout, stderr, sent, processed, name_vars, line_vars,
                   csv_vars>>

\* ProcDisconnected ending the loop as soon as the Sender is dropped
ProcDisconnectedEarly ==
    /\ Running /\ pc_proc = "recv"
    /\ ~tx
    /\ pc_proc' = "done"
    /\ rx' = FALSE
    /\ UNCHANGED <<input, pc_in, cur, stop_in, chan, tx, command, pc_main,
                   stdout, stderr, sent, processed, name_vars, line_vars, csv_vars>>

\* processing_thread: rx.recv() is an Err: the queue is empty and every
\* Sender is dropped; the loop ends and the thread returns Ok(())
ProcDisconnected ==
    /\ Running /\ pc_proc = "recv"
    /\ chan = <<>> /\ ~tx
    /\ pc_proc' = "done"
    /\ rx' = FALSE
    /\ UNCHANGED <<input, pc_in, cur, stop_in, chan, tx, command, pc_main,
                   stdout, stderr, sent, processed,
                   name_vars, line_vars, csv_vars>>

\* processing_thread: println!("Selected operation: {}", ...)
ProcAnnounce ==
    /\ Running /\ pc_proc = "announce"
    /\ stdout' = Append(stdout, OutLine("selected", command.id,
                   <<"Selected operation: ">> \o to_str(command.operation), <<>>))
    /\ pc_proc' = "execute"
    /\ UNCHANGED <<input, pc_in, cur, stop_in, chan, tx, rx, command, pc_main,
                   stderr, sent, processed,
                   name_vars, line_vars, csv_vars>>

\* ProcExecute leaving the loop when process_operation fails
ProcExecuteStopsOnError ==
    /\ Running /\ pc_proc = "execute"
    /\ \E file \in PipeFiles :
          LET r == process_operation(command.operation, command.input, file) IN
          IF r.ok
          THEN /\ stdout' = Append(stdout,
                              OutLine("result", command.id, r.text, r.table))
               /\ pc_proc' = "recv"
               /\ UNCHANGED <<stderr, rx>>
          ELSE /\ stderr' = Append(stderr,
                              ErrLine("processing", "process_error", command.id,
                                      <<"Error processing input: ">> \o r.text,
                                      <<>>))
               /\ pc_proc' = "done"
               /\ rx' = FALSE
               /\ UNCHANGED stdout
    /\ processed' = Append(processed, command)
    /\ UNCHANGED <<input, pc_in, cur, stop_in, chan, tx, command, pc_main,
                   sent, name_vars, line_vars, csv_vars>>

\* ProcExecute with println! where the error branch has eprintln!
ProcExecuteErrorsToStdout ==
    /\ Running /\ pc_proc = "execute"
    /\ \E file \in PipeFiles :
          LET r == process_operation(command.operation, command.input, file) IN
          IF r.ok
          THEN stdout' = Append(stdout,
                                OutLine("result", command.id, r.text, r.table))
          ELSE stdout' = Append(stdout,
                                OutLine("process_error", command.id,
                                        <<"Error processing input: ">> \o r.text,
                                        <<>>))
    /\ processed' = Append(processed, command)
    /\ pc_proc' = "recv"
    /\ UNCHANGED <<input, pc_in, cur, stop_in, chan, tx, rx, command, pc_main,
                   stderr, sent, name_vars, line_vars, csv_vars>>

\* processing_thread: process_operation, then println! of the result or
\* eprintln! of the error, and on to the next recv
ProcExecute ==
    /\ Running /\ pc_proc = "execute"
    /\ \E file \in PipeFiles :
          LET r == process_operation(command.operation, command.input, file) IN
          IF r.ok
          THEN /\ stdout' = Append(stdout,
                              OutLine("result", command.id, r.text, r.table))
               /\ UNCHANGED stderr
          ELSE /\ stderr' = Append(stderr,
                              ErrLine("processing", "process_error", command.id,
                                      <<"Error processing input: ">> \o r.text,
                                      <<>>))
               /\ UNCHANGED stdout
    /\ processed' = Append(processed, command)
    /\ pc_proc' = "recv"
    /\ UNCHANGED <<input, pc_in, cur, stop_in, chan, tx, rx, command, pc_main,
                   sent,
                   name_vars, line_vars, csv_vars>>

\* processing_thread: the println! of the announcement panics; the thread
\* unwinds and rx is dropped
ProcPanicAnnounce ==
    /\ Running /\ pc_proc = "announce"
    /\ pc_proc' = "panicked"
    /\ rx' = FALSE
    /\ UNCHANGED <<input, pc_in, cur, stop_in, chan, tx, command, pc_main,
                   stdout, stderr, sent, processed,
                   name_vars, line_vars, csv_vars>>

\* processing_thread: process_operation returns and the println! or eprintln!
\* of its outcome panics
ProcPanicExecute ==
    /\ Running /\ pc_proc = "execute"
    /\ processed' = Append(processed, command)
    /\ pc_proc' = "panicked"
    /\ rx' = FALSE
    /\ UNCHANGED <<input, pc_in, cur, stop_in, chan, tx, command, pc_main,
                   stdout, stderr, sent,
                   name_vars, line_vars, csv_vars>>

\* main: input_handle.join(); an Err (the thread panicked) returns Err at once
MainJoinInput ==
    /\ pc_main = "join_input"
    /\ InTerminated
    /\ pc_main' = IF pc_in = "panicked" THEN "err" ELSE "join_processing"
    /\ UNCHANGED <<input, pc_in, cur, stop_in, chan, tx, rx, pc_proc, command,
                   stdout, stderr, sent, processed,
                   name_vars, line_vars, csv_vars>>

\* MainJoinProcessing dropping the result of the join
MainJoinProcessingIgnored ==
    /\ pc_main = "join_processing"
    /\ ProcTerminated
    /\ pc_main' = "ok"
    /\ UNCHANGED <<input, pc_in, cur, stop_in, chan, tx, rx, pc_proc, command,
                   stdout, stderr, sent, processed,
                   name_vars, line_vars, csv_vars>>

\* main: processing_handle.join(), then Ok(()) or the Err of a panic
MainJoinProcessing ==
    /\ pc_main = "join_processing"
    /\ ProcTerminated
    /\ pc_main' = IF pc_proc = "panicked" THEN "err" ELSE "ok"
    /\ UNCHANGED <<input, pc_in, cur, stop_in, chan, tx, rx, pc_proc, command,
                   stdout, stderr, sent, processed,
                   name_vars, line_vars, csv_vars>>

Producer ==
    \/ InRead \/ InEof \/ InReadError \/ InThreadError \/ InFormatError
    \/ InInvalid \/ InList \/ InSend \/ InSendFail \/ InSendError \/ InPanic

Consumer ==
    \/ ProcRecv \/ ProcDisconnected \/ ProcAnnounce \/ ProcExecute
    \/ ProcPanicAnnounce \/ ProcPanicExecute

Supervisor == MainJoinInput \/ MainJoinProcessing

PipeNext == Producer \/ Consumer \/ Supervisor

Init == PipeInit /\ NamesIdle /\ LineIdle /\ CsvIdle

Next == PipeNext

Spec == Init /\ [][Next]_vars

\* Producer, consumer and main are OS threads: each one that can take a step
\* eventually takes one
FairSpec ==
    /\ Init /\ [][Next]_vars
    /\ WF_vars(Producer)
    /\ WF_vars(Consumer)
    /\ WF_vars(Supervisor)

(***************************************************************************)
(* SpecNames: from_str after to_str on every Operation, and to_str after   *)
(* from_str on bounded text.                                               *)
(***************************************************************************)
NamesInit ==
    /\ nm_pc = "start"
    /\ \/ nm_str \in NameInputs /\ nm_kind = "none"
       \/ nm_str = <<>> /\ nm_kind \in Operation
    /\ nm_res = FromErr(<<>>)
    /\ nm_name = <<>>

\* Operation::from_str(text)
NameParse ==
    /\ nm_pc = "start" /\ nm_kind = "none"
    /\ nm_res' = from_str(nm_str)
    /\ nm_pc' = IF from_str(nm_str).ok THEN "parsed" ELSE "rejected"
    /\ UNCHANGED <<nm_str, nm_kind, nm_name, pipe_vars, line_vars, csv_vars>>

\* to_str of the Operation from_str gave
NameShow ==
    /\ nm_pc = "parsed"
    /\ nm_name' = to_str(nm_res.op)
    /\ nm_pc' = "shown"
    /\ UNCHANGED <<nm_str, nm_kind, nm_res, pipe_vars, line_vars, csv_vars>>

\* operation.to_str()
KindShow ==
    /\ nm_pc = "start" /\ nm_kind # "none"
    /\ nm_name' = to_str(nm_kind)
    /\ nm_pc' = "named"
    /\ UNCHANGED <<nm_str, nm_kind, nm_res, pipe_vars, line_vars, csv_vars>>

\* from_str of the name to_str gave
KindParse ==
    /\ nm_pc = "named"
    /\ nm_res' = from_str(nm_name)
    /\ nm_pc' = "reparsed"
    /\ UNCHANGED <<nm_str, nm_kind, nm_name, pipe_vars, line_vars, csv_vars>>

NamesNext == NameParse \/ NameShow \/ KindShow \/ KindParse

InitNames == PipeInit /\ LineIdle /\ CsvIdle /\ NamesInit

SpecNames == InitNames /\ [][NamesNext]_vars

(***************************************************************************)
(* SpecLine: the line parsing of input_thread on bounded lines.            *)
(***************************************************************************)
RestChars == {"a", " ", "\t", "\n"}

LineInputs ==
    {lead \o first \o rest :
        lead \in {<<>>, <<"NBSP", " ">>},
        first \in {<<>>, <<"c","s","v">>, <<"b","o","g","u","s">>,
                   <<"N","o","-","S","P","A","C","E","S">>},
        rest \in TextUpTo(RestChars, MaxRest)}

LineInit ==
    /\ ln_in \in LineInputs
    /\ ln_out = Parsed("none", "none", <<>>, <<>>)

\* one turn of input_thread's loop on the line, up to the send
LineParse ==
    /\ ln_out.kind = "none"
    /\ ln_out' = ParseLine(ln_in)
    /\ UNCHANGED <<ln_in, pipe_vars, name_vars, csv_vars>>

LineNext == LineParse

InitLine == PipeInit /\ NamesIdle /\ CsvIdle /\ LineInit

SpecLine == InitLine /\ [][LineNext]_vars

(***************************************************************************)
(* SpecCsv: process_csv on what a bounded csv file gives.                  *)
(***************************************************************************)
\* the fields the csv Reader may give (trimmed, as Trim::All does)
Fields == {<<"a">>, <<"b">>}

\* a header row or a record of n fields
RowsOf(n) == [1..n -> Fields]

\* header rows: the csv Reader gives none for an empty file
HeaderRows == UNION {RowsOf(n) : n \in 0..MaxCols}

\* records: the Reader is flexible, so their lengths are free
Records == UNION {RowsOf(n) : n \in 1..MaxCols}

RecordLists == UNION {[1..n -> Records] : n \in 0..MaxRows}

\* a file that cannot be opened, one whose header row cannot be read, and
\* every header row with every list of records, read to the end or not
CsvInputs ==
    {F_missing, CsvFile(TRUE, TRUE, <<>>, FALSE, <<>>)}
    \cup {CsvFile(TRUE, FALSE, h, e, r) :
             h \in HeaderRows, e \in BOOLEAN, r \in RecordLists}

CsvInit ==
    /\ csv_in \in CsvInputs
    /\ csv_pc = "start"
    /\ csv_out = Failed(<<>>)

\* process_csv(file_path)
CsvProcess ==
    /\ csv_pc = "start"
    /\ csv_out' = process_csv(<<"f">>, csv_in)
    /\ csv_pc' = "done"
    /\ UNCHANGED <<csv_in, pipe_vars, name_vars, line_vars>>

CsvNext == CsvProcess

InitCsv == PipeInit /\ NamesIdle /\ LineIdle /\ CsvInit

SpecCsv == InitCsv /\ [][CsvNext]_vars

(***************************************************************************)
(* Properties of the pipeline.                                             *)
(***************************************************************************)
IsPrefix(a, b) == Len(a) <= Len(b) /\ SubSeq(b, 1, Len(a)) = a

\* the Command processing_thread holds between recv and the end of its turn
InHand == IF pc_proc \in {"announce", "execute"} THEN <<command>> ELSE <<>>

\* C1: the consumer hands Commands to the executor in exactly the order the
\* producer sent them, each with the operation and payload it was sent with:
\* what was processed is a prefix of what was sent, the Command in hand is the
\* next one sent, the queue holds the rest in order, and the lines on standard
\* output carry the sequence numbers in non-decreasing order, each
\* announcement naming the operation of the Command sent with that number.
FifoOrder ==
    /\ IsPrefix(processed, sent)
    /\ pc_proc # "panicked" => sent = processed \o InHand \o chan
    /\ \A i, j \in 1..Len(stdout) : i < j => stdout[i].id <= stdout[j].id
    /\ \A i \in 1..Len(stdout) :
          /\ stdout[i].id \in 1..Len(sent)
          /\ stdout[i].what = "selected" =>
                stdout[i].text = <<"Selected operation: ">>
                                 \o to_str(sent[stdout[i].id].operation)

\* C1 witness: the run is over and two Commands with different operations
\* went through the executor
FifoWitness ==
    /\ pc_main = "ok"
    /\ Len(processed) >= 2
    /\ processed[1].operation # processed[2].operation

\* C2: under fair scheduling, once the producer has seen end-of-stream it has
\* stopped and dropped its Sender, the consumer then eventually stops, and
\* main eventually returns.
PipelineTerminates ==
    /\ [](stop_in = "eof" => pc_in = "done" /\ ~tx)
    /\ (stop_in = "eof") ~> ProcTerminated
    /\ <>(InTerminated /\ pc_main \in {"ok", "err"})

\* C2 witness: end-of-stream was seen, the consumer found the channel closed
\* and drained after processing a Command, and main returned Ok
ShutdownWitness ==
    /\ stop_in = "eof"
    /\ pc_proc = "done"
    /\ pc_main = "ok"
    /\ Len(processed) >= 1

\* C3: every Command sent is processed at most once and, when the process
\* ends successfully, exactly once: sequence numbers of processed Commands are
\* distinct, each processed Command was sent, and once the consumer has left
\* its loop normally or main has returned Ok the queue is empty and
\* everything sent was processed.
ExactlyOnce ==
    /\ \A i, j \in 1..Len(processed) :
          processed[i].id = processed[j].id => i = j
    /\ \A i \in 1..Len(processed) :
          \E j \in 1..Len(sent) : sent[j] = processed[i]
    /\ \A i, j \in 1..Len(sent) : sent[i].id = sent[j].id => i = j
    /\ pc_proc = "done" => chan = <<>> /\ processed = sent
    /\ pc_main = "ok" => chan = <<>> /\ processed = sent /\ InTerminated

\* C3 witness: main returned Ok after at least two Commands were sent and
\* all of them processed
DrainedWitness ==
    /\ pc_main = "ok"
    /\ Len(sent) >= 2
    /\ processed = sent

\* what a line is expected to enqueue: a line is well-formed when it has at
\* least two whitespace-separated tokens and its first token parses as an
\* operation, and then it gives that operation with the later tokens joined
\* by single spaces; any other line gives nothing
ExpectedOfLine ==
    [line \in PipeLines |->
        LET parts == split_whitespace(line) IN
        IF Len(parts) >= 2 /\ from_str(parts[1]).ok
        THEN <<[operation |-> from_str(parts[1]).op,
                input |-> join(Tail(parts), <<" ">>)]>>
        ELSE <<>>]

WellFormed(line) == ExpectedOfLine[line] # <<>>

\* the Commands of the well-formed lines among lines, in order, numbered
\* from Len(acc) + 1
RECURSIVE ExpectedCommands(_, _)
ExpectedCommands(lines, acc) ==
    IF lines = <<>> THEN acc
    ELSE LET e == ExpectedOfLine[Head(lines)] IN
         ExpectedCommands(Tail(lines),
            IF e # <<>>
            THEN Append(acc, Command(e[1].operation, e[1].input, Len(acc) + 1))
            ELSE acc)

\* the lines input_thread is through with: all it read, but the last one
\* while its Command is still to be sent or its send failed
Handled ==
    IF pc_in \in {"send", "send_error"} \/ stop_in = "send_failed"
    THEN SubSeq(input, 1, Len(input) - 1)
    ELSE input

\* C4: malformed lines are skipped without enqueuing and without stopping the
\* producer: the Commands sent are exactly those of the well-formed lines
\* among the lines handled, in order, and the producer leaves its loop
\* normally only on end-of-stream, a read error or a failed send.
MalformedSkipped ==
    /\ sent = ExpectedCommands(Handled, <<>>)
    /\ pc_in = "done" => stop_in \in {"eof", "read_error", "send_failed"}
    /\ stop_in = "eof" => Handled = input

\* C4 witness: a malformed line between two well-formed lines, both of whose
\* Commands were sent, and end-of-stream after them
MalformedBetweenWitness ==
    /\ Len(input) = 3
    /\ WellFormed(input[1]) /\ ~WellFormed(input[2]) /\ WellFormed(input[3])
    /\ input[1] # input[3]
    /\ Len(sent) = 2
    /\ stop_in = "eof"

\* C5: a failure of process_operation never ends the consumer's loop: the
\* step that reports it goes back to recv with the Receiver alive, the loop
\* ends normally only on a closed and drained channel, and a run that ends
\* successfully has processed every Command sent, those after a failure
\* included.
ConsumerSurvivesErrors ==
    /\ [][(/\ Len(stderr') = Len(stderr) + 1
           /\ stderr'[Len(stderr')].what = "process_error")
          => (pc_proc' = "recv" /\ rx')]_vars
    /\ [](pc_proc = "done" => ~tx /\ chan = <<>>)
    /\ [](pc_main = "ok" => processed = sent)

\* C5 witness: main returned Ok, a Command failed, and a later Command's
\* result is on standard output
ErrorThenResultWitness ==
    /\ pc_main = "ok"
    /\ \E i \in 1..Len(stderr) : \E j \in 1..Len(stdout) :
          /\ stderr[i].what = "process_error"
          /\ stdout[j].what = "result"
          /\ stdout[j].id > stderr[i].id

\* C9: main does not return before both threads have terminated.
MainWaitsForBoth ==
    pc_main \in {"ok", "err"} => InTerminated /\ ProcTerminated

\* the thread that wrote the stderr line e is still in the turn that wrote
\* it, or panicked in it
StillReporting(e) ==
    /\ e.who = "input"
    /\ pc_in \in {"list", "panicked"}
    /\ e.id = Len(input)

IsErrorReport(e) ==
    e.what \in {"format_error", "invalid_error", "process_error"}

\* a full listing of the operations: the header and one line per Operation
ListsOperations(e) ==
    /\ e.what = "operations"
    /\ Len(e.lines) = Cardinality(Operation) + 1
    /\ \A k \in Operation :
          \E l \in 2..Len(e.lines) : e.lines[l] = <<"  ">> \o to_str(k)

\* C10, as claimed: every recoverable error on standard error, the consumer's
\* executor failures included, is followed by a listing of the operations
\* from the thread that reported it.
EveryErrorListsOperations ==
    \A i \in 1..Len(stderr) :
        IsErrorReport(stderr[i]) =>
            \/ StillReporting(stderr[i])
            \/ \E j \in (i + 1)..Len(stderr) :
                  /\ ListsOperations(stderr[j])
                  /\ stderr[j].who = stderr[i].who

\* C10, amended: every error the producer reports (the format error, an
\* invalid operation) is followed by a listing of all operations for the same
\* line before the next line is read; the consumer reports an executor
\* failure without any listing.
ProducerErrorsListOperations ==
    /\ \A i \in 1..Len(stderr) :
          stderr[i].what \in {"format_error", "invalid_error"} =>
              \/ StillReporting(stderr[i])
              \/ \E j \in (i + 1)..Len(stderr) :
                    /\ ListsOperations(stderr[j])
                    /\ stderr[j].who = "input"
                    /\ stderr[j].id = stderr[i].id
    /\ \A i \in 1..Len(stderr) :
          stderr[i].who = "processing" => stderr[i].what = "process_error"

\* C10 witness: an invalid operation was reported and listed for, an executor
\* failure was reported, and the producer is back at read_line
ErrorsReportedWitness ==
    /\ pc_in = "read"
    /\ \E i, j, k \in 1..Len(stderr) :
          /\ stderr[i].what = "invalid_error"
          /\ j > i /\ ListsOperations(stderr[j])
          /\ stderr[k].what = "process_error"

(***************************************************************************)
(* Properties of the registry and of the line parsing.                     *)
(***************************************************************************)
\* s is c with some of its letters in upper case
IsCasingOf(s, c) ==
    /\ Len(s) = Len(c)
    /\ \A i \in 1..Len(c) :
          s[i] = c[i] \/ (IsLower(c[i]) /\ s[i] = UpperOf(c[i]))

\* a and b are the same character up to case (Unicode folds the Kelvin sign
\* to "k")
SameIgnoringCase(a, b) ==
    \/ a = b
    \/ IsUpper(a) /\ LowerOf(a) = b
    \/ a = "KELVIN" /\ b = "k"

\* s is the lower-case text c up to case, character by character
EqualIgnoringCase(s, c) ==
    /\ Len(s) = Len(c)
    /\ \A i \in 1..Len(c) : SameIgnoringCase(s[i], c[i])

\* C6: the name mapping is total, one-to-one and round-trips: to_str gives
\* every Operation a non-empty lower-case name no other Operation has,
\* from_str of that name is the Operation, and from_str accepts every casing
\* of a canonical name, to_str of the result being that canonical name.
NamesRoundTrip ==
    /\ nm_pc = "named" =>
          /\ nm_name # <<>>
          /\ to_lowercase(nm_name) = nm_name
          /\ \A k \in Operation : to_str(k) = nm_name => k = nm_kind
    /\ nm_pc = "reparsed" => nm_res = FromOk(nm_kind)
    /\ nm_pc = "parsed" => nm_res.op \in Operation
    /\ nm_pc = "rejected" =>
          ~ \E k \in Operation : IsCasingOf(nm_str, to_str(k))
    /\ nm_pc = "shown" =>
          \A k \in Operation :
              IsCasingOf(nm_str, to_str(k)) => nm_name = to_str(k)

\* C6 witness: a canonical name in mixed case was parsed and shown as the
\* canonical lower-case name
MixedCaseWitness ==
    /\ nm_pc = "shown"
    /\ nm_str = <<"N","o","-","S","p","A","c","E","s">>
    /\ nm_name = <<"n","o","-","s","p","a","c","e","s">>

\* C7: text that is not a canonical name up to case is rejected by from_str,
\* and the error message contains the text exactly as it was given.
UnknownNameRejected ==
    (/\ nm_pc \in {"parsed", "rejected", "shown"}
     /\ ~ \E k \in Operation : EqualIgnoringCase(nm_str, to_str(k)))
    => /\ nm_pc = "rejected"
       /\ ~nm_res.ok
       /\ nm_res.op = "none"
       /\ Contains(nm_res.err, <<"Invalid operation: ">> \o nm_str)

\* C7 witness: a canonical name in upper case with one more letter was
\* rejected
UpperCaseRejectedWitness ==
    /\ nm_pc = "rejected"
    /\ nm_str = <<"C","S","V","X">>

\* the characters of s that are not whitespace
NonWs(s) == SelectSeq(s, LAMBDA c : ~is_whitespace(c))

\* the number of tokens of line: the places where a run of non-whitespace
\* starts
WordStarts(line) ==
    Cardinality({i \in 1..Len(line) :
        ~is_whitespace(line[i]) /\ (i = 1 \/ is_whitespace(line[i - 1]))})

\* the first token of a line that has one
FirstWord(line) ==
    LET a == CHOOSE i \in 1..Len(line) :
                 /\ ~is_whitespace(line[i])
                 /\ \A j \in 1..(i - 1) : is_whitespace(line[j])
        b == CHOOSE i \in a..Len(line) :
                 /\ \A j \in a..i : ~is_whitespace(line[j])
                 /\ (i = Len(line) \/ is_whitespace(line[i + 1]))
    IN SubSeq(line, a, b)

InLoop == pc_in \in {"read", "format_error", "invalid_error", "list", "send"}

\* processing_thread is inside its while let
ProcLoop == pc_proc \in {"recv", "announce", "execute"}

\* a step that takes processing_thread out of its loop does so at a recv on
\* a queue that is empty with the Sender dropped, or is a panic
ConsumerLeaves ==
    (ProcLoop /\ ~ProcLoop') =>
        \/ pc_proc = "recv" /\ chan = <<>> /\ ~tx
        \/ pc_proc' = "panicked"

\* C11 as stated: a step that takes input_thread out of its loop is a read
\* that returned end-of-stream or a send that failed on a closed channel, and
\* a step that takes processing_thread out of its loop finds the channel
\* closed and empty (a step that is a panic is a fault, not a way of stopping)
StopsOnlyOnEofOrClosed ==
    [][/\ (InLoop /\ ~InLoop') =>
              \/ pc_in = "read" /\ stop_in' = "eof"
              \/ pc_in = "send" /\ ~rx /\ stop_in' = "send_failed"
              \/ pc_in' = "panicked"
       /\ ConsumerLeaves]_vars

\* C11: a step that takes input_thread out of its loop is a read that
\* returned end-of-stream, a read that returned an error (which `?` returns
\* from input_thread), or a send that failed on a closed channel, unless it
\* is a panic; a step that takes processing_thread out of its loop finds the
\* channel closed and empty, unless it is a panic.
StopsOnlyOnEofReadErrorOrClosed ==
    [][/\ (InLoop /\ ~InLoop') =>
              \/ pc_in = "read" /\ stop_in' \in {"eof", "read_error"}
              \/ pc_in = "send" /\ ~rx /\ stop_in' = "send_failed"
              \/ pc_in' = "panicked"
       /\ ConsumerLeaves]_vars

\* C11 witness: input_thread left its loop on a read error after a Command
\* was sent, and processing_thread left its own once the queue was drained
ReadErrorStopWitness ==
    /\ stop_in = "read_error" /\ pc_in = "done"
    /\ pc_proc = "done" /\ chan = <<>>
    /\ Len(processed) >= 1

(***************************************************************************)
(* What goes to which stream, and in which order.                          *)
(***************************************************************************)
\* the kinds of line that report an error or list the operations
Diagnostics == {"format_error", "invalid_error", "operations", "send_error",
                "thread_error", "process_error"}

\* the positions of stdout that hold the announcement of Command id
AnnouncedAt(id) ==
    {i \in 1..Len(stdout) : stdout[i].what = "selected" /\ stdout[i].id = id}

\* C12: every processed Command has exactly one announcement on standard
\* output, which names the canonical name of its operation; a result comes
\* right after the announcement of its own Command; an announcement comes
\* after every line of the Commands before it; standard output holds only
\* announcements and results, and standard error only error messages and
\* listings of the operations, an executor error coming after the
\* announcement of its Command, which then has no result.
AnnouncedBeforeResult ==
    /\ \A k \in 1..Len(processed) : Cardinality(AnnouncedAt(k)) = 1
    /\ \A j \in 1..Len(stdout) :
          /\ stdout[j].what \in {"selected", "result"}
          /\ stdout[j].what = "selected" =>
                /\ stdout[j].text = <<"Selected operation: ">>
                                    \o to_str(sent[stdout[j].id].operation)
                /\ \A i \in 1..(j - 1) : stdout[i].id < stdout[j].id
          /\ stdout[j].what = "result" =>
                /\ j > 1
                /\ stdout[j - 1].what = "selected"
                /\ stdout[j - 1].id = stdout[j].id
    /\ \A e \in 1..Len(stderr) :
          /\ stderr[e].what \in Diagnostics
          /\ stderr[e].what = "process_error" =>
                /\ AnnouncedAt(stderr[e].id) # {}
                /\ \A j \in 1..Len(stdout) :
                      stdout[j].what = "result" => stdout[j].id # stderr[e].id

\* C12 witness: a Command with its result, then a Command whose executor
\* failed, with a listing of the operations on standard error as well
StreamsWitness ==
    /\ Len(stdout) = 3
    /\ stdout[2].what = "result" /\ stdout[3].what = "selected"
    /\ \E e \in 1..Len(stderr) :
          stderr[e].what = "process_error" /\ stderr[e].id = 2
    /\ \E e \in 1..Len(stderr) : stderr[e].what = "operations"

(***************************************************************************)
(* Properties of process_csv and of the Display of CsvTable.               *)
(***************************************************************************)
\* the file was opened and its header row was read
HeadersRead == csv_in.open /\ ~csv_in.hdr_err

\* C13: on a file whose header row was read, process_csv fails with "CSV has
\* no headers" when that row has no fields, whatever the records are, and
\* with "CSV has no data rows" when the row has fields and the records were
\* read and are none; neither result carries a table.
CsvEmptyErrors ==
    (csv_pc = "done" /\ HeadersRead) =>
        /\ csv_in.headers = <<>> =>
              csv_out = Failed(OperationError(<<"CSV has no headers">>))
        /\ (csv_in.headers # <<>> /\ ~csv_in.rec_err /\ csv_in.records = <<>>) =>
              csv_out = Failed(OperationError(<<"CSV has no data rows">>))
        /\ (csv_in.headers = <<>> \/ (~csv_in.rec_err /\ csv_in.records = <<>>)) =>
              ~csv_out.ok /\ csv_out.table = <<>>

\* C13 witness: process_csv ran on a file with no header row and no records
\* and reported the missing headers
NoHeadersNoRowsWitness ==
    /\ csv_pc = "done" /\ HeadersRead
    /\ csv_in.headers = <<>> /\ csv_in.records = <<>> /\ ~csv_in.rec_err
    /\ csv_out.text = OperationError(<<"CSV has no headers">>)

\* C18: the table process_csv renders has the header row first, whose cells
\* are the headers in order, and then one row for each record, in the order
\* of the records, whose cells are the fields of that record in order, as
\* many as the record has fields.
OneRowPerRecord ==
    (csv_pc = "done" /\ csv_out.ok) =>
        LET t == csv_out.table IN
        /\ Len(t) = 1 + Len(csv_in.records)
        /\ t[1].cells = csv_in.headers
        /\ \A i \in 1..Len(csv_in.records) :
              /\ Len(t[i + 1].cells) = Len(csv_in.records[i])
              /\ \A j \in 1..Len(csv_in.records[i]) :
                    t[i + 1].cells[j] = csv_in.records[i][j]

\* C18 witness: a table was rendered from two records, the second shorter
\* than the header row and rendered with fewer cells than the header row
RaggedTableWitness ==
    /\ csv_pc = "done" /\ csv_out.ok
    /\ Len(csv_in.records) = 2
    /\ Len(csv_in.records[1]) = Len(csv_in.headers)
    /\ Len(csv_in.records[2]) < Len(csv_in.headers)
    /\ csv_in.records[1][1] # csv_in.records[2][1]
    /\ Len(csv_out.table[3].cells) < Len(csv_out.table[1].cells)

(***************************************************************************)
(* Faults of the threads and what main returns.                            *)
(***************************************************************************)
\* one of the two threads has panicked
Faulted == pc_in = "panicked" \/ pc_proc = "panicked"

\* C14: main returns Ok only if neither thread panicked and Err only if one
\* did, and under fair scheduling a panic of either thread leads to main
\* returning Err.
PanicMakesMainFail ==
    /\ [](pc_main = "ok" => ~Faulted)
    /\ [](pc_main = "err" => Faulted)
    /\ (Faulted ~> pc_main = "err")

\* C14 witness: input_thread returned, processing_thread panicked, and main
\* returned Err from the join of the processing thread
ConsumerPanicCaughtWitness ==
    /\ pc_main = "err"
    /\ pc_in = "done" /\ pc_proc = "panicked"

(***************************************************************************)
(* Lines of one token.                                                     *)
(***************************************************************************)
\* the lines of standard input that hold exactly one token
OneTokenLines == {l \in PipeLines : WordStarts(l) = 1}

\* the positions of stderr that input_thread wrote while handling line k
\* (the report of a read error is written after the loop, by main's closure)
DiagnosticsOf(k) ==
    {e \in 1..Len(stderr) : /\ stderr[e].who = "input"
                            /\ stderr[e].id = k
                            /\ stderr[e].what # "thread_error"}

\* input_thread is through with line k
Through(k) == k < Len(input) \/ pc_in \in {"read", "thread_error", "done"}

\* C15: for a line of exactly one token, an operation name or not,
\* input_thread writes the format error and after it the listing of the
\* operations and nothing else (no error of from_str), sends nothing while
\* the line is the last one read, and is back at read_line, with its Sender
\* alive, once the listing is written.
OneTokenIsFormatError ==
    /\ [](\A k \in 1..Len(input) : input[k] \in OneTokenLines =>
            /\ \A e \in DiagnosticsOf(k) :
                  stderr[e].what \in {"format_error", "operations"}
            /\ Cardinality(DiagnosticsOf(k)) <= 2
            /\ Through(k) =>
                  \E e, f \in DiagnosticsOf(k) :
                      /\ e < f
                      /\ stderr[e].text =
                            <<"Error: Expected format: <operation> <input>">>
                      /\ stderr[f].lines = AvailableOperations
            /\ k = Len(input) =>
                  /\ cur = Parsed("format", "none", <<>>, <<>>)
                  /\ stop_in \in {"running", "eof", "read_error", "panic"}
                  /\ pc_in = "read" => tx /\ stop_in = "running")
    /\ [][(/\ input # <<>>
           /\ input[Len(input)] \in OneTokenLines
           /\ input' = input) => sent' = sent]_vars

\* C15 witness: a line holding the one token slugify, an operation name, and
\* a line holding the one token x, which is none, were both answered with
\* the format error and the listing, nothing was sent, and input_thread is
\* back at read_line
OneTokenWitness ==
    /\ input = <<L_one, L_word>>
    /\ from_str(FirstWord(L_one)).ok /\ ~from_str(FirstWord(L_word)).ok
    /\ pc_in = "read" /\ tx
    /\ sent = <<>>
    /\ Len(stderr) = 4
    /\ stderr[3].what = "format_error" /\ stderr[4].what = "operations"

(***************************************************************************)
(* A send that fails.                                                      *)
(***************************************************************************)
\* the line eprintln!("Error sending command: {}", e) writes
SendErrorLine ==
    ErrLine("input", "send_error", Len(input),
            <<"Error sending command: ", "sending on a closed channel">>, <<>>)

\* C16: a send on a channel whose Receiver is gone does not panic: the next
\* step of input_thread, unless its eprintln! panics, writes "Error sending
\* command" and ends the thread with its Sender dropped; from the failed
\* send on no line is read and nothing is enqueued; and main's join of the
\* input thread is then Ok, so main goes on to join the processing thread.
SendFailureEndsProducer ==
    /\ [](stop_in = "send_failed" =>
            ~rx /\ pc_in \in {"send_error", "done", "panicked"})
    /\ [][/\ (pc_in = "send" /\ pc_in' # "send") =>
              \/ rx /\ pc_in' = "read"
              \/ ~rx /\ pc_in' = "send_error" /\ stderr' = stderr
          /\ (pc_in = "send_error" /\ pc_in' \notin {"send_error", "panicked"}) =>
              /\ pc_in' = "done" /\ ~tx'
              /\ stderr' = Append(stderr, SendErrorLine)
          /\ stop_in = "send_failed" =>
              input' = input /\ sent' = sent /\ chan' = chan
          /\ (/\ stop_in = "send_failed" /\ pc_in = "done"
              /\ pc_main = "join_input" /\ pc_main' # pc_main) =>
              pc_main' = "join_processing"
       ]_vars

\* C16 witness: the send of the second line's Command failed with a line
\* still to read; input_thread logged it and returned, and main came to an
\* end
SendFailedWitness ==
    /\ stop_in = "send_failed" /\ pc_in = "done"
    /\ Len(input) = 2 /\ Len(sent) = 1
    /\ stderr # <<>> /\ stderr[Len(stderr)] = SendErrorLine
    /\ pc_main = "err"

(***************************************************************************)
(* The channel is unbounded.                                               *)
(***************************************************************************)
\* C17: while main has not returned, input_thread always has a step to take
\* until it has terminated, whatever processing_thread does, and at a send
\* with the Receiver alive that step is the enqueue, whatever the length of
\* the queue.
ProducerNeverBlocked ==
    /\ (Running /\ ~InTerminated) => ENABLED Producer
    /\ (Running /\ pc_in = "send" /\ rx) => ENABLED InSend

\* C17 witness: every line read gave a Command, all of them are queued, and
\* input_thread has stopped on end-of-stream before processing_thread took
\* any of them
AllQueuedWitness ==
    /\ Len(input) = MaxLines
    /\ Len(chan) = MaxLines
    /\ pc_in = "done" /\ stop_in = "eof"
    /\ pc_proc = "recv" /\ processed = <<>> /\ stdout = <<>>

(***************************************************************************)
(* The order in which the two threads stop.                                *)
(***************************************************************************)
\* C19: processing_thread has left its loop without a panic only when
\* input_thread has left its own, the Sender is dropped and the queue is
\* empty; so the Receiver is dropped while the Sender is alive only by a
\* panic of processing_thread, and a send has failed, or "Error sending
\* command" has been written, only after processing_thread panicked.
SendFailsOnlyAfterConsumerPanic ==
    /\ pc_proc = "done" => ~InLoop /\ ~tx /\ chan = <<>>
    /\ (~rx /\ tx) => pc_proc = "panicked"
    /\ (pc_in = "send_error" \/ stop_in = "send_failed") =>
          pc_proc = "panicked"
    /\ \A e \in 1..Len(stderr) :
          stderr[e].what = "send_error" => pc_proc = "panicked"

\* C19 witness: processing_thread panicked with a Command in hand, and the
\* next send of input_thread failed
SendErrorReachedWitness ==
    /\ pc_proc = "panicked"
    /\ pc_in = "send_error" /\ stop_in = "send_failed"
    /\ tx /\ ~rx

(***************************************************************************)
(* What standard output holds when main returns.                           *)
(***************************************************************************)
\* the Commands whose process_operation failed
FailedIds ==
    {stderr[e].id : e \in {f \in 1..Len(stderr) :
                              stderr[f].what = "process_error"}}

\* what process_operation gives for c when it does not fail
ResultOf(c) ==
    CHOOSE r \in {process_operation(c.operation, c.input, file) :
                     file \in PipeFiles} : r.ok

\* the lines processing_thread writes to standard output for cmds: for each
\* Command the announcement and, unless process_operation failed, the result
RECURSIVE ExpectedStdout(_)
ExpectedStdout(cmds) ==
    IF cmds = <<>> THEN <<>>
    ELSE LET c == Head(cmds) IN
         <<OutLine("selected", c.id,
                   <<"Selected operation: ">> \o to_str(c.operation), <<>>)>>
         \o (IF c.id \in FailedIds THEN <<>>
             ELSE <<OutLine("result", c.id, ResultOf(c).text,
                            ResultOf(c).table)>>)
         \o ExpectedStdout(Tail(cmds))

\* C20: when main has returned and processing_thread has not panicked,
\* standard output holds, for the Commands of the well-formed lines read, in
\* order, the announcement and the result of each one whose executor did not
\* fail: it is a function of the input lines and of the executor's outcomes,
\* the same under every interleaving.
StdoutDetermined ==
    (pc_main \in {"ok", "err"} /\ pc_proc # "panicked") =>
        stdout = ExpectedStdout(ExpectedCommands(input, <<>>))

====
